---- MODULE Spec2Model ----
(***************************************************************************)
(* Model of the contract import resolver of flow-cli (package resolvers): *)
(* ImportResolver.Add, ImportResolver.ResolveImports, ImportResolver.Sort *)
(* and sortByDeploymentOrder, which builds a gonum simple.DirectedGraph    *)
(* and orders it with topo.SortStabilized(g, nil).                         *)
(*                                                                         *)
(* The variables are the fields of the resolver, ret, the operation last   *)
(* called with the error it returned, and calls, the number of             *)
(* ResolveImports and Sort calls made so far.                              *)
(*                                                                         *)
(* A *Program pointer is modelled by the program's index, which Add makes  *)
(* unique.  The Program type itself (newProgram, imports, isContract,      *)
(* addDependency, addAlias, Name, ID) is declared outside the files at     *)
(* hand and is modelled from the data model of the specification.          *)
(***************************************************************************)
EXTENDS Integers, Sequences, FiniteSets, TLC

VARIABLES programs, programsByLocation, aliases, ret, calls

vars == <<programs, programsByLocation, aliases, ret, calls>>

----------------------------------------------------------------------------
(* Bounds of the model. *)

\* Largest number of registered programs.
MaxPrograms == 4

\* Largest number of import declarations in one source text.
MaxImports == 2

\* Largest number of import declarations in all registered programs.
MaxTotalImports == 4

\* Registries of more than MaxMixedPrograms programs hold contracts at
\* distinct locations; smaller ones may also hold scripts and programs that
\* were registered under a location already in use.
MaxMixedPrograms == 2

\* Largest number of ResolveImports and Sort calls a caller makes.
MaxCalls == 2

\* The location strings callers pass to Add and sources import.  A caller
\* names its locations in this order: a location is passed to Add for the
\* first time only after all the locations before it.
Locations == <<"A", "B", "C", "D">>

LocationSet == {Locations[i] : i \in 1..Len(Locations)}

----------------------------------------------------------------------------
(* Generic helpers. *)

Range(s) == {s[i] : i \in 1..Len(s)}

Reverse(s) == [i \in 1..Len(s) |-> s[Len(s) + 1 - i]]

SeqsUpTo(S, n) == UNION {[1..k -> S] : k \in 0..n}

Min(S) == CHOOSE x \in S : \A y \in S : x <= y

\* The absent value of a map lookup or of a nil pointer.
NoProgram == -1

EmptyMap == [l \in {} |-> 0]

NoError == [kind |-> "nil"]

----------------------------------------------------------------------------
(* The Program entity. *)

\* A source text, as the Import Extractor and the kind classification see it.
Codes == [imports : SeqsUpTo(LocationSet, MaxImports), kind : {"contract", "script"}]

newProgram(index, location, code) ==
    [index        |-> index,
     location     |-> location,
     imports      |-> code.imports,
     kind         |-> code.kind,
     dependencies |-> {},
     aliases      |-> EmptyMap]

isContract(p) == p.kind = "contract"

imports(p) == p.imports

Name(p) == p.location

ID(p) == p.index

addDependency(p, location, dep) ==
    [p EXCEPT !.dependencies = @ \cup {dep}]

addAlias(p, location, address) ==
    [p EXCEPT !.aliases = [l \in DOMAIN p.aliases \cup {location} |->
                              IF l = location THEN address ELSE p.aliases[l]]]

\* flow.HexToAddress: the hex digits after the 0x prefix, padded to an even
\* count, are decoded pairwise into bytes; the address is the last
\* AddressLength bytes, left-padded with zero bytes.
AddressLength == 8

HexDecode(digits) ==
    LET even == IF Len(digits) % 2 = 1 THEN <<0>> \o digits ELSE digits
    IN  [k \in 1..(Len(even) \div 2) |-> even[2 * k - 1] * 16 + even[2 * k]]

BytesToAddress(b) ==
    [k \in 1..AddressLength |->
        LET src == Len(b) - AddressLength + k
        IN  IF src >= 1 THEN b[src] ELSE 0]

HexToAddress(s) == BytesToAddress(HexDecode(s))

\* The AliasTable the resolver is constructed with, location -> hex digits
\* of the address: the first location a caller registers has an alias, the
\* last has one, the others have none.
AliasTable == [l \in {"A", "D"} |-> IF l = "A" THEN <<0, 1>> ELSE <<1, 15, 3>>]

----------------------------------------------------------------------------
(* ImportResolver.ResolveImports *)

\* A pass that looks a location up in the alias table first.
RECURSIVE resolveFromAliasFirst(_, _, _, _, _)
resolveFromAliasFirst(progs, byLocation, als, i, j) ==
    IF i > Len(progs) THEN [programs |-> progs, err |-> NoError]
    ELSE IF j > Len(imports(progs[i]))
         THEN resolveFromAliasFirst(progs, byLocation, als, i + 1, 1)
    ELSE LET location == imports(progs[i])[j]
         IN  IF location \in DOMAIN als
             THEN resolveFromAliasFirst(
                      [progs EXCEPT ![i] = addAlias(@, location, HexToAddress(als[location]))],
                      byLocation, als, i, j + 1)
             ELSE IF byLocation[location] # NoProgram
             THEN resolveFromAliasFirst(
                      [progs EXCEPT ![i] = addDependency(@, location, byLocation[location])],
                      byLocation, als, i, j + 1)
             ELSE [programs |-> progs,
                   err |-> [kind     |-> "UnresolvedImport",
                            program  |-> Name(progs[i]),
                            location |-> location]]

RECURSIVE resolveFrom(_, _, _, _, _)
resolveFrom(progs, byLocation, als, i, j) ==
    IF i > Len(progs) THEN [programs |-> progs, err |-> NoError]
    ELSE IF j > Len(imports(progs[i]))
         THEN resolveFrom(progs, byLocation, als, i + 1, 1)
    ELSE LET location       == imports(progs[i])[j]
             importPath     == location
             isAlias        == importPath \in DOMAIN als
             importContract == byLocation[importPath]
             isContractLoc  == importContract # NoProgram
         IN  IF isContractLoc
             THEN resolveFrom([progs EXCEPT ![i] =
                                  addDependency(@, location, importContract)],
                              byLocation, als, i, j + 1)
             ELSE IF isAlias
             THEN resolveFrom([progs EXCEPT ![i] =
                                  addAlias(@, location, HexToAddress(als[importPath]))],
                              byLocation, als, i, j + 1)
             ELSE [programs |-> progs,
                   err |-> [kind     |-> "UnresolvedImport",
                            program  |-> Name(progs[i]),
                            location |-> importPath]]

\* A pass that carries on after an unresolved import and reports the first.
RECURSIVE resolveAll(_, _, _, _, _, _)
resolveAll(progs, byLocation, als, i, j, err) ==
    IF i > Len(progs) THEN [programs |-> progs, err |-> err]
    ELSE IF j > Len(imports(progs[i]))
         THEN resolveAll(progs, byLocation, als, i + 1, 1, err)
    ELSE LET location == imports(progs[i])[j]
         IN  IF byLocation[location] # NoProgram
             THEN resolveAll([progs EXCEPT ![i] =
                                 addDependency(@, location, byLocation[location])],
                             byLocation, als, i, j + 1, err)
             ELSE IF location \in DOMAIN als
             THEN resolveAll([progs EXCEPT ![i] =
                                 addAlias(@, location, HexToAddress(als[location]))],
                             byLocation, als, i, j + 1, err)
             ELSE resolveAll(progs, byLocation, als, i, j + 1,
                             IF err # NoError THEN err
                             ELSE [kind     |-> "UnresolvedImport",
                                   program  |-> Name(progs[i]),
                                   location |-> location])

ResolveImportsBestEffort(progs, byLocation, als) ==
    resolveAll(progs, byLocation, als, 1, 1, NoError)

ResolveImportsOf(progs, byLocation, als) == resolveFrom(progs, byLocation, als, 1, 1)

----------------------------------------------------------------------------
(* sortByDeploymentOrder: the graph and topo.SortStabilized(g, nil). *)

\* ordered.ByID: ascending node ID.
ByID(nodes) == SortSeq(nodes, LAMBDA a, b : a < b)

\* The graph keeps its nodes and edges in Go maps; iter is the order in which
\* this run's map iteration yields the node IDs.
NodesOf(g, iter) == SelectSeq(iter, LAMBDA n : n \in g.nodes)

From(g, iter, id) == SelectSeq(iter, LAMBDA n : <<id, n>> \in g.edges)

\* The order topo.Sort leaves the nodes in: the map's own.
StabilizeOmitted(nodes) == nodes

\* The nodes visited in ascending ID.
StabilizeAscending(nodes) == ByID(nodes)

\* tarjanSCCstabilized visits nodes and successors in descending ID.
Stabilize(nodes) == Reverse(ByID(nodes))

succ(g, iter, id) == Stabilize(From(g, iter, id))

NewTarjan(g) ==
    [index      |-> 0,
     indexTable |-> [n \in g.nodes |-> 0],
     lowLink    |-> [n \in g.nodes |-> 0],
     stack      |-> <<>>,
     onStack    |-> {},
     sccs       |-> <<>>]

PosOf(s, v) == CHOOSE i \in 1..Len(s) : s[i] = v

\* Pop the stack down to v: the popped nodes, last pushed first, are one
\* strongly connected component.
PopSCC(t, v) ==
    LET p == PosOf(t.stack, v)
        scc == Reverse(SubSeq(t.stack, p, Len(t.stack)))
    IN  [t EXCEPT !.stack = SubSeq(t.stack, 1, p - 1),
                  !.onStack = @ \ Range(scc),
                  !.sccs = Append(@, scc)]

RECURSIVE strongconnect(_, _, _, _), considerSuccessors(_, _, _, _, _)
strongconnect(t, g, iter, v) ==
    LET t1 == [t EXCEPT !.index = t.index + 1,
                        !.indexTable[v] = t.index + 1,
                        !.lowLink[v] = t.index + 1,
                        !.stack = Append(@, v),
                        !.onStack = @ \cup {v}]
        t2 == considerSuccessors(t1, g, iter, v, succ(g, iter, v))
    IN  IF t2.lowLink[v] = t2.indexTable[v] THEN PopSCC(t2, v) ELSE t2

considerSuccessors(t, g, iter, v, ws) ==
    IF Len(ws) = 0 THEN t
    ELSE LET w == Head(ws)
             t1 == IF t.indexTable[w] = 0
                   THEN LET r == strongconnect(t, g, iter, w)
                        IN  [r EXCEPT !.lowLink[v] = Min({r.lowLink[v], r.lowLink[w]})]
                   ELSE IF w \in t.onStack
                   THEN [t EXCEPT !.lowLink[v] = Min({t.lowLink[v], t.indexTable[w]})]
                   ELSE t
         IN  considerSuccessors(t1, g, iter, v, Tail(ws))

RECURSIVE tarjanRoots(_, _, _, _)
tarjanRoots(t, g, iter, roots) ==
    IF Len(roots) = 0 THEN t
    ELSE LET v == Head(roots)
             t1 == IF t.indexTable[v] = 0 THEN strongconnect(t, g, iter, v) ELSE t
         IN  tarjanRoots(t1, g, iter, Tail(roots))

tarjanSCCstabilized(g, iter) ==
    tarjanRoots(NewTarjan(g), g, iter, Stabilize(NodesOf(g, iter))).sccs

\* The components left in the order Tarjan's algorithm emits them.
sortedFromEmitted(sccs) ==
    LET cyclic == SelectSeq(sccs, LAMBDA c : Len(c) # 1)
        sc     == [k \in 1..Len(cyclic) |-> ByID(cyclic[k])]
        sorted == [k \in 1..Len(sccs) |->
                      IF Len(sccs[k]) # 1 THEN NoProgram ELSE sccs[k][1]]
    IN  [sorted |-> sorted, unorderable |-> Reverse(sc)]

\* sortedFrom: components of one node make the order, the others are
\* reported, each in ascending ID, as the Unorderable error.
sortedFrom(sccs) ==
    LET cyclic == SelectSeq(sccs, LAMBDA c : Len(c) # 1)
        sc     == [k \in 1..Len(cyclic) |-> ByID(cyclic[k])]
        sorted == [k \in 1..Len(sccs) |->
                      IF Len(sccs[k]) # 1 THEN NoProgram ELSE sccs[k][1]]
    IN  [sorted |-> Reverse(sorted), unorderable |-> Reverse(sc)]

SortStabilized(g, iter) == sortedFrom(tarjanSCCstabilized(g, iter))

\* A node ID taken for the position of the program in contracts.
ProgramOfPosition(contracts, id) == contracts[id + 1]

ProgramOf(contracts, id) == CHOOSE c \in Range(contracts) : ID(c) = id

\* A conversion that takes the first node at every position.
nodesToContractsOfFirst(nodes, contracts) ==
    [k \in 1..Len(nodes) |-> ProgramOf(contracts, nodes[1])]

nodesToContracts(nodes, contracts) ==
    [k \in 1..Len(nodes) |-> ProgramOf(contracts, nodes[k])]

\* A cycle group is kept as the indices of its programs, in order.
nodeSetsToContractSets(nodeSets, contracts) ==
    [k \in 1..Len(nodeSets) |->
        [m \in 1..Len(nodeSets[k]) |-> ProgramOf(contracts, nodeSets[k][m]).index]]

\* The edges drawn from the importing contract to its dependency.
GraphOfImporterFirst(contracts) ==
    [nodes |-> {ID(c) : c \in Range(contracts)},
     edges |-> UNION {{<<ID(c), dep>> : dep \in c.dependencies} : c \in Range(contracts)}]

GraphOf(contracts) ==
    [nodes |-> {ID(c) : c \in Range(contracts)},
     edges |-> UNION {{<<dep, ID(c)>> : dep \in c.dependencies} : c \in Range(contracts)}]

\* AddNode panics on a node ID it already holds, SetEdge on an edge from a
\* node to itself.
GraphPanics(contracts) ==
    \/ \E i, j \in 1..Len(contracts) : i # j /\ ID(contracts[i]) = ID(contracts[j])
    \/ \E c \in Range(contracts) : ID(c) \in c.dependencies

sortByDeploymentOrder(contracts, iter) ==
    IF GraphPanics(contracts)
    THEN [sorted |-> <<>>, err |-> [kind |-> "panic"]]
    ELSE LET r == SortStabilized(GraphOf(contracts), iter)
         IN  IF Len(r.unorderable) # 0
             THEN [sorted |-> <<>>,
                   err |-> [kind   |-> "CyclicImport",
                            Cycles |-> nodeSetsToContractSets(r.unorderable, contracts)]]
             ELSE [sorted |-> nodesToContracts(r.sorted, contracts), err |-> NoError]

\* The orders in which a run may iterate a map over the node IDs 0..n-1: a
\* map of one bucket is walked from a random slot, so every rotation of the
\* ascending order and, to cover other layouts, of the descending order.
IterOrders(n) ==
    IF n = 0 THEN {<<>>}
    ELSE UNION {{[k \in 1..n |-> (k - 1 + r) % n], [k \in 1..n |-> (n - k + r) % n]} :
                   r \in 0..(n - 1)}

----------------------------------------------------------------------------
(* ImportResolver.Sort, as a function of the resolver's fields.  SortChecks *)
(* is the part before the graph is built: the kind check and the           *)
(* resolution pass.                                                        *)

\* The resolution pass run before the kinds are looked at.
SortChecksResolveFirst(progs, byLocation, als) ==
    LET r == ResolveImportsOf(progs, byLocation, als)
    IN  IF \E p \in Range(progs) : ~isContract(p)
        THEN [programs |-> r.programs, err |-> [kind |-> "NotSortable"]]
        ELSE r

SortChecks(progs, byLocation, als) ==
    IF \E p \in Range(progs) : ~isContract(p)
    THEN [programs |-> progs, err |-> [kind |-> "NotSortable"]]
    ELSE ResolveImportsOf(progs, byLocation, als)

\* A Sort that stores what sortByDeploymentOrder returned before it looks at
\* the error.
SortOrderStoredFirst(checked, iter) ==
    IF checked.err # NoError THEN checked
    ELSE LET s == sortByDeploymentOrder(checked.programs, iter)
         IN  [programs |-> s.sorted, err |-> s.err]

SortOrder(checked, iter) ==
    IF checked.err # NoError THEN checked
    ELSE LET s == sortByDeploymentOrder(checked.programs, iter)
         IN  IF s.err # NoError
             THEN [programs |-> checked.programs, err |-> s.err]
             ELSE [programs |-> s.sorted, err |-> NoError]

SortOf(progs, byLocation, als, iter) ==
    SortOrder(SortChecks(progs, byLocation, als), iter)

----------------------------------------------------------------------------
(* State machine. *)

Init ==
    /\ programs = <<>>
    /\ programsByLocation = [l \in LocationSet |-> NoProgram]
    /\ aliases = AliasTable
    /\ ret = [op |-> "New", err |-> NoError]
    /\ calls = 0

\* A panic ends the process.
Running == ret.err.kind # "panic"

Registered == {l \in LocationSet : programsByLocation[l] # NoProgram}

\* The locations a caller may pass next (see Locations).
Nameable ==
    {Locations[i] : i \in {k \in 1..Len(Locations) :
                              \A m \in 1..(k - 1) : Locations[m] \in Registered}}

RECURSIVE TotalImports(_)
TotalImports(progs) ==
    IF Len(progs) = 0 THEN 0
    ELSE Len(imports(Head(progs))) + TotalImports(Tail(progs))

Regular(progs) ==
    /\ \A p \in Range(progs) : isContract(p)
    /\ \A i, j \in 1..Len(progs) : i # j => progs[i].location # progs[j].location

WithinBounds(progs) ==
    /\ Len(progs) <= MaxPrograms
    /\ TotalImports(progs) <= MaxTotalImports
    /\ Len(progs) > MaxMixedPrograms => Regular(progs)

\* An Add that numbers the programs from one.
AddOkCountsFromOne(location, code) ==
    /\ Running
    /\ LET contract == newProgram(Len(programs) + 1, location, code)
       IN  /\ WithinBounds(Append(programs, contract))
           /\ programs' = Append(programs, contract)
           /\ programsByLocation' =
                 [programsByLocation EXCEPT ![contract.location] = contract.index]
    /\ ret' = [op |-> "Add", err |-> NoError]
    /\ UNCHANGED <<aliases, calls>>

AddOk(location, code) ==
    /\ Running
    /\ LET contract == newProgram(Len(programs), location, code)
       IN  /\ WithinBounds(Append(programs, contract))
           /\ programs' = Append(programs, contract)
           /\ programsByLocation' =
                 [programsByLocation EXCEPT ![contract.location] = contract.index]
    /\ ret' = [op |-> "Add", err |-> NoError]
    /\ UNCHANGED <<aliases, calls>>

\* The Loader cannot load the location, or newProgram rejects the text.
AddErrors == {"LoadError", "ProgramError"}

AddFails(location, kind) ==
    /\ Running
    /\ ret' = [op |-> "Add", err |-> [kind |-> kind]]
    /\ UNCHANGED <<programs, programsByLocation, aliases, calls>>

\* Callers register every program before they resolve or sort.
Add ==
    /\ ret.op \in {"New", "Add"}
    /\ \E location \in Nameable :
        \/ \E code \in Codes : AddOk(location, code)
        \/ \E kind \in AddErrors : AddFails(location, kind)

ResolveImports ==
    /\ Running
    /\ calls < MaxCalls
    /\ calls' = calls + 1
    /\ LET r == ResolveImportsOf(programs, programsByLocation, aliases)
       IN  /\ programs' = r.programs
           /\ ret' = [op |-> "ResolveImports", err |-> r.err]
    /\ UNCHANGED <<programsByLocation, aliases>>

Sort ==
    /\ Running
    /\ calls < MaxCalls
    /\ calls' = calls + 1
    /\ LET checked == SortChecks(programs, programsByLocation, aliases)
       IN  \E iter \in (IF checked.err = NoError
                         THEN IterOrders(Len(programs))
                         ELSE {<<>>}) :
              LET r == SortOrder(checked, iter)
              IN  /\ programs' = r.programs
                  /\ ret' = [op |-> "Sort", err |-> r.err]
    /\ UNCHANGED <<programsByLocation, aliases>>

Next == Add \/ ResolveImports \/ Sort

Spec == Init /\ [][Next]_vars

----------------------------------------------------------------------------
(* Notions the properties are stated in, taken from the registry itself:   *)
(* program P depends on program Q when an import of P names the location   *)
(* under which Q is registered.                                            *)

Indices == {p.index : p \in Range(programs)}

Position(idx) == CHOOSE i \in 1..Len(programs) : programs[i].index = idx

DirectDeps ==
    {<<p.index, programsByLocation[l]>> :
        <<p, l>> \in {<<q, m>> \in Range(programs) \X LocationSet :
                         /\ m \in Range(imports(q))
                         /\ programsByLocation[m] # NoProgram}}

RECURSIVE Closure(_)
Closure(R) ==
    LET more == R \cup {<<a[1], b[2]>> : <<a, b>> \in {<<x, y>> \in R \X R : x[2] = y[1]}}
    IN  IF more = R THEN R ELSE Closure(more)

TransDeps == Closure(DirectDeps)

Unrelated(p, q) == <<p, q>> \notin TransDeps /\ <<q, p>> \notin TransDeps

InRegistrationOrder == \A i \in 1..Len(programs) : programs[i].index = i - 1

SortSucceeded == ret.op = "Sort" /\ ret.err = NoError

----------------------------------------------------------------------------
\* C1: after a successful Sort, whenever program P depends on program Q,
\* directly or through a chain of imports, Q stands at a strictly smaller
\* position of programs than P.
TopologicalValidity ==
    SortSucceeded =>
        \A pq \in TransDeps : Position(pq[2]) < Position(pq[1])

\* A successful Sort that had to move programs and that orders a pair related
\* only through a chain of imports.
TopologicalValidityWitness ==
    /\ SortSucceeded
    /\ ~InRegistrationOrder
    /\ \E pq \in TransDeps \ DirectDeps : Position(pq[2]) < Position(pq[1])

\* C2, as stated: after a successful Sort, of two programs with no dependency
\* relationship the one registered earlier stands earlier.
TieBreakAnyPair ==
    SortSucceeded =>
        \A p, q \in Indices :
            (p < q /\ Unrelated(p, q)) => Position(p) < Position(q)

\* C2, amended: after a successful Sort, of two programs with no dependency
\* relationship the one registered earlier stands earlier, provided it has no
\* dependencies of its own.
TieBreakReadyFirst ==
    SortSucceeded =>
        \A p, q \in Indices :
            (p < q /\ Unrelated(p, q) /\ ~\E d \in Indices : <<p, d>> \in DirectDeps)
                => Position(p) < Position(q)

\* A successful Sort that moved programs and kept an earlier program without
\* dependencies ahead of a later, unrelated program that has dependencies.
TieBreakReadyFirstWitness ==
    /\ SortSucceeded
    /\ ~InRegistrationOrder
    /\ \E p, q \in Indices :
          /\ p < q /\ Unrelated(p, q)
          /\ ~\E d \in Indices : <<p, d>> \in DirectDeps
          /\ \E d \in Indices : <<q, d>> \in DirectDeps
          /\ Position(p) < Position(q)

----------------------------------------------------------------------------
AllContracts == \A p \in Range(programs) : isContract(p)

Resolvable(l) == programsByLocation[l] # NoProgram \/ l \in DOMAIN aliases

AllResolvable == \A p \in Range(programs) : \A l \in Range(imports(p)) : Resolvable(l)

\* The import graph has a cycle, a program importing itself included.
Cyclic == \E p \in Indices : <<p, p>> \in TransDeps

Component(p) == {p} \cup {q \in Indices : <<p, q>> \in TransDeps /\ <<q, p>> \in TransDeps}

LargeComponents == {Component(p) : p \in {q \in Indices : Cardinality(Component(q)) > 1}}

\* C3: when Sort reaches the graph of a set of contracts and the graph is not
\* acyclic, it fails with a CyclicImportError whose groups are exactly the
\* strongly connected components of more than one program, one group each,
\* and programs keeps its registration order.
CycleDetectionComplete ==
    (ret.op = "Sort" /\ AllContracts /\ AllResolvable /\ Cyclic) =>
        /\ ret.err.kind = "CyclicImport"
        /\ Len(ret.err.Cycles) = Cardinality(LargeComponents)
        /\ {Range(ret.err.Cycles[k]) : k \in 1..Len(ret.err.Cycles)} = LargeComponents
        /\ InRegistrationOrder

\* C4: Sort of a single contract whose imports name only its own location
\* returns a CyclicImportError of one group that holds this contract alone.
SelfCycleReported ==
    (/\ ret.op = "Sort"
     /\ Len(programs) = 1
     /\ AllContracts
     /\ Range(imports(programs[1])) = {programs[1].location}) =>
        /\ ret.err.kind = "CyclicImport"
        /\ ret.err.Cycles = <<<<programs[1].index>>>>

----------------------------------------------------------------------------
\* The unresolved imports, as <<position of the program, position of the
\* import in its source>>, and the first of them in traversal order.
Unresolved ==
    {ij \in (1..Len(programs)) \X (1..MaxImports) :
        /\ ij[2] <= Len(imports(programs[ij[1]]))
        /\ ~Resolvable(imports(programs[ij[1]])[ij[2]])}

FirstUnresolved ==
    CHOOSE ij \in Unresolved :
        \A kl \in Unresolved : ij[1] < kl[1] \/ (ij[1] = kl[1] /\ ij[2] <= kl[2])

\* C5: a ResolveImports call on a registry with unresolved imports fails with
\* the error that names the program and the location of the first of them in
\* traversal order; the imports before it are resolved, and nothing after it
\* is: the rest of that program's imports and all later programs stay as
\* they were.
FailFastOnUnresolved ==
    [][(ret'.op = "ResolveImports" /\ Unresolved # {}) =>
          LET i == FirstUnresolved[1]
              j == FirstUnresolved[2]
              p == programs[i]
              seen == {imports(p)[m] : m \in 1..(j - 1)}
          IN  /\ ret'.err = [kind     |-> "UnresolvedImport",
                             program  |-> Name(p),
                             location |-> imports(p)[j]]
              /\ Len(programs') = Len(programs)
              /\ \A k \in (i + 1)..Len(programs) : programs'[k] = programs[k]
              /\ programs'[i].dependencies =
                    p.dependencies \cup
                       {programsByLocation[l] : l \in {m \in seen : programsByLocation[m] # NoProgram}}
              /\ DOMAIN programs'[i].aliases =
                    DOMAIN p.aliases \cup {l \in seen : programsByLocation[l] = NoProgram}
    ]_vars

\* ResolveImports has failed on a registry of two differently named programs
\* with an unresolved import each, and the later program, which also imports
\* a registered location, has no dependency.
FailFastOnUnresolvedWitness ==
    /\ ret.op = "ResolveImports"
    /\ ret.err.kind = "UnresolvedImport"
    /\ \E ij, kl \in Unresolved :
          /\ ij[1] < kl[1]
          /\ Name(programs[ij[1]]) # Name(programs[kl[1]])
          /\ ret.err.program = Name(programs[ij[1]])
          /\ \E l \in Range(imports(programs[kl[1]])) : programsByLocation[l] # NoProgram
          /\ programs[kl[1]].dependencies = {}

----------------------------------------------------------------------------
\* The states right after a resolution pass that succeeded, in ResolveImports
\* or inside Sort.
ResolutionSucceeded ==
    \/ ret.op = "ResolveImports" /\ ret.err = NoError
    \/ ret.op = "Sort" /\ ret.err.kind \in {"nil", "CyclicImport", "panic"}

\* The addresses the alias table's hex digits stand for.
AliasAddresses ==
    [l \in {"A", "D"} |-> IF l = "A" THEN <<0, 0, 0, 0, 0, 0, 0, 1>>
                                      ELSE <<0, 0, 0, 0, 0, 0, 1, 243>>]

\* C6: after a resolution pass that succeeded, every import of every program
\* is resolved in exactly one way: an import of a registered location is a
\* dependency on the program registered there and no alias, even when the
\* alias table has the location; any other import is an alias with the
\* table's address and adds no dependency.  Sort of a single contract whose
\* imports are all aliased succeeds and keeps it.
ResolvedExactlyOneWay ==
    /\ ResolutionSucceeded =>
          \A p \in Range(programs) :
              /\ p.dependencies =
                    {programsByLocation[l] :
                        l \in {m \in Range(imports(p)) : programsByLocation[m] # NoProgram}}
              /\ DOMAIN p.aliases =
                    {l \in Range(imports(p)) : programsByLocation[l] = NoProgram}
              /\ \A l \in DOMAIN p.aliases :
                    l \in DOMAIN aliases /\ p.aliases[l] = AliasAddresses[l]
    /\ (/\ ret.op = "Sort"
        /\ Len(programs) = 1
        /\ AllContracts
        /\ imports(programs[1]) # <<>>
        /\ \A l \in Range(imports(programs[1])) :
              programsByLocation[l] = NoProgram /\ l \in DOMAIN aliases) =>
          /\ ret.err = NoError
          /\ programs[1].dependencies = {}
          /\ DOMAIN programs[1].aliases = Range(imports(programs[1]))

\* A resolved program that imports a registered location the alias table
\* also has, held as a dependency, and a location only the table has, held
\* as an alias.
ResolvedExactlyOneWayWitness ==
    /\ ResolutionSucceeded
    /\ \E p \in Range(programs) : \E l, m \in Range(imports(p)) :
          /\ l \in DOMAIN aliases /\ programsByLocation[l] # NoProgram
          /\ programsByLocation[l] \in p.dependencies /\ l \notin DOMAIN p.aliases
          /\ m \in DOMAIN p.aliases /\ p.aliases[m] = AliasAddresses[m]

----------------------------------------------------------------------------
\* C7: a Sort call on a registry that holds a script fails with the
\* not-sortable error and changes nothing: no dependency, no alias, not the
\* order of programs, whatever else is wrong with the set.
MixedKindsRejected ==
    [][(ret'.op = "Sort" /\ ~AllContracts) =>
          /\ ret'.err = [kind |-> "NotSortable"]
          /\ programs' = programs
          /\ programsByLocation' = programsByLocation
          /\ aliases' = aliases
    ]_vars

\* Sort has rejected a registry with a script whose imports include an
\* unresolved one and a cycle, and no program has a dependency or an alias.
MixedKindsRejectedWitness ==
    /\ ret.op = "Sort"
    /\ ret.err.kind = "NotSortable"
    /\ Unresolved # {}
    /\ Cyclic
    /\ \E p \in Range(programs) : isContract(p)
    /\ \A p \in Range(programs) : p.dependencies = {} /\ p.aliases = EmptyMap

----------------------------------------------------------------------------
Ascending(n) == [k \in 1..n |-> k - 1]

\* C8: the outcome of a Sort call, the stored order or the error with its
\* content, is the one outcome the registry and the alias table determine,
\* whatever order the run iterates the graph's maps in.
SortDeterministic ==
    [][ret'.op = "Sort" =>
          LET r == SortOf(programs, programsByLocation, aliases, Ascending(Len(programs)))
          IN  programs' = r.programs /\ ret'.err = r.err
    ]_vars

\* A successful Sort that moved programs and had unrelated programs to place.
SortDeterministicWitness ==
    /\ SortSucceeded
    /\ Len(programs) >= 3
    /\ ~InRegistrationOrder
    /\ \E p, q \in Indices : p # q /\ Unrelated(p, q)

----------------------------------------------------------------------------
\* Kahn's algorithm with the smallest index taken among the programs whose
\* dependencies have all been taken.
RECURSIVE Kahn(_)
Kahn(remaining) ==
    IF remaining = {} THEN <<>>
    ELSE LET ready == {n \in remaining :
                          ~\E d \in remaining : <<n, d>> \in DirectDeps}
             m == Min(ready)
         IN  <<m>> \o Kahn(remaining \ {m})

StoredOrder == [k \in 1..Len(programs) |-> programs[k].index]

\* C9, as stated: the order a successful Sort stores is the order of Kahn's
\* algorithm with the smallest-index rule.
KahnEquivalence ==
    SortSucceeded => StoredOrder = Kahn(Indices)

\* C9, amended: for a set of at most three contracts, the order a successful
\* Sort stores is the order of Kahn's algorithm with the smallest-index rule.
KahnEquivalenceUpToThree ==
    (SortSucceeded /\ Len(programs) <= 3) => StoredOrder = Kahn(Indices)

\* A successful Sort of three contracts that moved programs, one of them
\* depending on both others.
KahnEquivalenceUpToThreeWitness ==
    /\ SortSucceeded
    /\ Len(programs) = 3
    /\ ~InRegistrationOrder
    /\ \E p \in Indices : Cardinality({d \in Indices : <<p, d>> \in DirectDeps}) = 2
    /\ StoredOrder = Kahn(Indices)

----------------------------------------------------------------------------
\* C10: while only Add has been called, the program at position i of
\* programs has index i; a successful Add appends one program, with the next
\* index, and registers it under its location; a failing Add leaves programs
\* and programsByLocation as they were.
AddRegistration ==
    /\ [](ret.op \in {"New", "Add"} => \A i \in 1..Len(programs) : programs[i].index = i - 1)
    /\ [][ret'.op = "Add" =>
            IF ret'.err = NoError
            THEN /\ Len(programs') = Len(programs) + 1
                 /\ SubSeq(programs', 1, Len(programs)) = programs
                 /\ programs'[Len(programs')].index = Len(programs)
                 /\ programsByLocation' =
                       [programsByLocation EXCEPT
                           ![programs'[Len(programs')].location] = Len(programs)]
            ELSE /\ programs' = programs
                 /\ programsByLocation' = programsByLocation
       ]_vars

\* An Add that failed on a registry of two programs, which are still there.
AddRegistrationWitness ==
    /\ ret.op = "Add"
    /\ ret.err.kind = "LoadError"
    /\ Len(programs) = 2
    /\ programsByLocation[programs[2].location] = 1
----------------------------------------------------------------------------
\* C11: while only Add has been called, repeated locations included,
\* programsByLocation is in one-to-one correspondence with programs: every
\* program of programs is the one registered under its location, and there
\* are as many registered locations as programs.
RegistryConsistency ==
    ret.op \in {"New", "Add"} =>
        /\ \A p \in Range(programs) : programsByLocation[p.location] = p.index
        /\ Cardinality(Registered) = Len(programs)
----------------------------------------------------------------------------
\* What a program is registered as: the fields no operation changes.
Identity(p) == <<p.index, p.location, p.imports, p.kind>>

\* C12: a Sort call that succeeds replaces programs by a permutation of it:
\* the same length, every program that was registered exactly once, with
\* the index and location it had, and programsByLocation is unchanged.
SortIsPermutation ==
    [][(ret'.op = "Sort" /\ ret'.err = NoError) =>
          /\ Len(programs') = Len(programs)
          /\ \A p \in Range(programs) :
                Cardinality({k \in 1..Len(programs') :
                                Identity(programs'[k]) = Identity(p)}) = 1
          /\ \A k \in 1..Len(programs') :
                \E p \in Range(programs) : Identity(programs'[k]) = Identity(p)
          /\ programsByLocation' = programsByLocation
    ]_vars

\* A successful Sort of four contracts that moved programs: all four indices
\* are there, and each location still leads to its program.
SortIsPermutationWitness ==
    /\ SortSucceeded
    /\ Len(programs) = 4
    /\ ~InRegistrationOrder
    /\ Indices = 0..3
    /\ \A p \in Range(programs) : programsByLocation[p.location] = p.index

----------------------------------------------------------------------------
SortErrors == {"NotSortable", "UnresolvedImport", "CyclicImport"}

\* C13: a Sort call that returns an error, whichever of the three, leaves
\* programs with the members and the order it had and programsByLocation as
\* it was.
FailedSortKeepsOrder ==
    [][(ret'.op = "Sort" /\ ret'.err.kind \in SortErrors) =>
          /\ Len(programs') = Len(programs)
          /\ \A k \in 1..Len(programs) : Identity(programs'[k]) = Identity(programs[k])
          /\ programsByLocation' = programsByLocation
    ]_vars

\* Sort has failed on a cycle in a registry that also holds a program outside
\* the cycle with a dependency, for which an order was there to be stored;
\* the programs stand as registered.
FailedSortKeepsOrderWitness ==
    /\ ret.op = "Sort"
    /\ ret.err.kind = "CyclicImport"
    /\ Len(programs) >= 3
    /\ \E p \in Range(programs) :
          /\ p.index \notin UNION LargeComponents
          /\ p.dependencies # {}
    /\ InRegistrationOrder
----------------------------------------------------------------------------
\* The registry as the Add calls left it: the programs in registration
\* order, none of them resolved.
AsRegistered ==
    [k \in 1..Len(programs) |->
        LET p == programs[Position(k - 1)]
        IN  newProgram(p.index, p.location, [imports |-> p.imports, kind |-> p.kind])]

\* What one Sort call right after the Add calls does.
SingleSort == SortOf(AsRegistered, programsByLocation, aliases, Ascending(Len(programs)))

SingleSortOrder == [k \in 1..Len(SingleSort.programs) |-> SingleSort.programs[k].index]

\* C14: on a registry of contracts that one Sort call sorts, a Sort call
\* made after a ResolveImports call or after an earlier Sort call succeeds
\* and stores the order the one Sort call stores.
RepeatedResolutionKeepsOrder ==
    [][(/\ ret.op \in {"ResolveImports", "Sort"}
        /\ ret'.op = "Sort"
        /\ calls' = calls + 1
        /\ SingleSort.err = NoError) =>
          /\ ret'.err = NoError
          /\ StoredOrder' = SingleSortOrder
    ]_vars

\* A Sort that was the second call after the Add calls has succeeded on three
\* or more programs, which do not stand as registered.
RepeatedResolutionKeepsOrderWitness ==
    /\ calls = 2
    /\ SortSucceeded
    /\ Len(programs) >= 3
    /\ ~InRegistrationOrder
====
